---- MODULE Spec2Model ----
(***************************************************************************)
(* State-machine model of hl_ws_wallet_watch.py: the websocket loop that   *)
(* relays userFills frames of the watched wallets to a notification        *)
(* channel, with the per-wallet LRU dedup cache, the baseline latch and    *)
(* the reconnect/backoff loop.                                             *)
(***************************************************************************)
EXTENDS Integers, Sequences, FiniteSets, TLC

(***************************************************************************)
(* JSON values as Python sees them after json.loads.  A value carries its  *)
(* type tag, so that str() and truthiness are computed, not assumed.       *)
(***************************************************************************)
None == [t |-> "none", i |-> 0, s |-> ""]
JInt(n) == [t |-> "int", i |-> n, s |-> ""]
JStr(x) == [t |-> "str", i |-> 0, s |-> x]
JBool(b) == [t |-> "bool", i |-> IF b THEN 1 ELSE 0, s |-> ""]

Digits == <<"0", "1", "2", "3", "4", "5", "6", "7", "8", "9">>

RECURSIVE NatStr(_)
NatStr(n) == IF n < 10 THEN Digits[n + 1] ELSE NatStr(n \div 10) \o Digits[(n % 10) + 1]

\* str(v), as used by the f-strings of fill_key and fmt_fill.
PyStr(v) ==
    CASE v.t = "none" -> "None"
      [] v.t = "int" -> IF v.i < 0 THEN "-" \o NatStr(0 - v.i) ELSE NatStr(v.i)
      [] v.t = "bool" -> IF v.i = 1 THEN "True" ELSE "False"
      [] OTHER -> v.s

\* Python truthiness of a JSON scalar.
Truthy(v) ==
    CASE v.t = "none" -> FALSE
      [] v.t = "int" -> v.i # 0
      [] v.t = "bool" -> v.i = 1
      [] OTHER -> v.s # ""

(***************************************************************************)
(* An element of a "fills" array.  obj says whether it is a JSON object;   *)
(* the other fields are what f.get(<name>) returns (None when absent).     *)
(***************************************************************************)
MkFill(tid, hsh, time, coin, side, px, sz, oid, fee, crossed) ==
    [obj |-> TRUE, tid |-> tid, hash |-> hsh, time |-> time, coin |-> coin,
     side |-> side, px |-> px, sz |-> sz, oid |-> oid, fee |-> fee,
     crossed |-> crossed]

\* A fills element that is not an object (a number): f.get raises.
NotAFill == [MkFill(None, None, None, None, None, None, None, None, None, None)
               EXCEPT !.obj = FALSE]

RECURSIVE JoinNonEmpty(_)
\* " ".join([p for p in parts if p])
JoinNonEmpty(parts) ==
    IF parts = <<>> THEN ""
    ELSE LET rest == JoinNonEmpty(Tail(parts)) IN
         IF Head(parts) = "" THEN rest
         ELSE IF rest = "" THEN Head(parts)
         ELSE Head(parts) \o " " \o rest

fmt_fill(f) ==
    JoinNonEmpty(<<
        IF f.time # None THEN "[" \o PyStr(f.time) \o "]" ELSE "",
        "fill",
        IF Truthy(f.coin) THEN PyStr(f.coin) ELSE "",
        IF Truthy(f.side) THEN PyStr(f.side) ELSE "",
        IF f.sz # None THEN "sz=" \o PyStr(f.sz) ELSE "",
        IF f.px # None THEN "px=" \o PyStr(f.px) ELSE "",
        IF f.fee # None THEN "fee=" \o PyStr(f.fee) ELSE "",
        IF f.crossed # None THEN (IF Truthy(f.crossed) THEN "taker" ELSE "maker") ELSE "">>)

\* Mutant: hash is preferred to tid.
fill_key_hash_first(user, f) ==
    IF f.hash # None THEN user \o ":hash:" \o PyStr(f.hash)
    ELSE IF f.tid # None THEN user \o ":tid:" \o PyStr(f.tid)
    ELSE user \o ":t:" \o PyStr(f.time) \o "|" \o PyStr(f.coin) \o "|" \o PyStr(f.side)
              \o "|" \o PyStr(f.px) \o "|" \o PyStr(f.sz) \o "|" \o PyStr(f.oid)

fill_key(user, f) ==
    IF f.tid # None THEN user \o ":tid:" \o PyStr(f.tid)
    ELSE IF f.hash # None THEN user \o ":hash:" \o PyStr(f.hash)
    ELSE user \o ":t:" \o PyStr(f.time) \o "|" \o PyStr(f.coin) \o "|" \o PyStr(f.side)
              \o "|" \o PyStr(f.px) \o "|" \o PyStr(f.sz) \o "|" \o PyStr(f.oid)


(***************************************************************************)
(* Configuration (module level of the script).                             *)
(***************************************************************************)
\* WALLETS: the watch list, stripped and lower-cased, in configuration order.
WALLETS == <<"0xa", "0xb">>

RECONNECT_BASE == 1
RECONNECT_MAX == 20
SEND_BASELINE_ON_SNAPSHOT == TRUE

\* max_size of seen_cache (4000 in the script), scaled down so that capacity
\* eviction is reached.
MaxSize == 2

\* fills[-5:] keeps at most this many trailing fills of a repeated snapshot.
TrailWindow == 5

Range(q) == {q[i] : i \in 1..Len(q)}
Min(a, b) == IF a < b THEN a ELSE b

\* "user in WALLETS"
InWallets(user) == user \in Range(WALLETS)

\* str.lower() on the address strings that occur in the model.
Lower(x) ==
    CASE x = "0xA" -> "0xa"
      [] x = "0xB" -> "0xb"
      [] OTHER -> x

(***************************************************************************)
(* SeenCache: one OrderedDict per user, modelled as the sequence of its    *)
(* keys, oldest first.  A user without a map has the empty sequence.       *)
(***************************************************************************)
RECURSIVE Without(_, _)
Without(q, k) ==
    IF q = <<>> THEN <<>>
    ELSE IF Head(q) = k THEN Without(Tail(q), k)
    ELSE <<Head(q)>> \o Without(Tail(q), k)

\* Mutant: a hit removes the key instead of moving it to the end.
drop_on_hit(lru, key) == Without(lru, key)

\* Mutant: a hit leaves the order as it was (no move_to_end).
no_refresh(lru, key) == lru

\* OrderedDict.move_to_end(key)
move_to_end(lru, key) == Append(Without(lru, key), key)

\* Mutant: the new key is stored and nothing is popped.
insert_unbounded(lru, key) == Append(lru, key)

\* lru[key] = None on a new key, then popitem(last=False) while over max_size
insert_new(lru, key) ==
    LET grown == Append(lru, key) IN
    IF Len(grown) > MaxSize THEN Tail(grown) ELSE grown

\* Mutant: a new key is reported new but never stored.
add_and_check_forgets(maps, user, key) ==
    IF key \in Range(maps[user])
    THEN [maps |-> [maps EXCEPT ![user] = move_to_end(maps[user], key)], dup |-> TRUE]
    ELSE [maps |-> maps, dup |-> FALSE]

\* Mutant: one LRU for all wallets instead of one per wallet: a new key
\* takes a slot in every wallet's list.
add_and_check_shared(maps, user, key) ==
    IF key \in Range(maps[user])
    THEN [maps |-> [maps EXCEPT ![user] = move_to_end(maps[user], key)], dup |-> TRUE]
    ELSE [maps |-> [w \in DOMAIN maps |-> insert_new(maps[w], key)], dup |-> FALSE]

\* SeenCache.add_and_check: the new maps and the returned flag
\* (TRUE = already seen).
add_and_check(maps, user, key) ==
    IF key \in Range(maps[user])
    THEN [maps |-> [maps EXCEPT ![user] = move_to_end(maps[user], key)], dup |-> TRUE]
    ELSE [maps |-> [maps EXCEPT ![user] = insert_new(maps[user], key)], dup |-> FALSE]

(***************************************************************************)
(* Notifications.  tg_send never raises (it catches every Exception), so   *)
(* its only effect on the loop is the text it emits.                       *)
(***************************************************************************)
tg_send(out, text) == Append(out, text)

ConnectedText == "HL WS connected. Subscribed to userFills for " \o NatStr(Len(WALLETS)) \o " wallet(s)."
DisconnectedText == "HL WS disconnected; retrying soon"
BaselineText(user, f) == "HL " \o user \o " baseline -> " \o fmt_fill(f)
FillText(user, f) == "HL " \o user \o " -> " \o fmt_fill(f)

\* json.dumps of the subscribe request of subscribe_user
SubscribeMsg(addr) == [method |-> "subscribe", type |-> "userFills", user |-> addr]

(***************************************************************************)
(* Inbound frames.  A frame is what the websocket yields (raw), described  *)
(* by what json.loads and the field probes of the loop make of it:         *)
(*   json       "invalid" (json.loads raises), "array" (valid JSON that is *)
(*              not an object), "object"                                   *)
(*   channel    msg.get("channel"): a JSON value                           *)
(*   data       "object" when isinstance(data, dict), else "other"         *)
(*   user       data.get("user"): a JSON value                             *)
(*   fills      shape of data.get("fills", []): "list", "absent" (default  *)
(*              []), "null" (None), "number" (a non-zero number)           *)
(*   items      the elements when fills is a list                          *)
(*   isSnapshot data.get("isSnapshot", False): a JSON value                *)
(***************************************************************************)
MkFrame(json, channel, data, user, fills, items, isSnapshot) ==
    [json |-> json, channel |-> channel, data |-> data, user |-> user,
     fills |-> fills, items |-> items, isSnapshot |-> isSnapshot]

\* A userFills frame of the documented shape.
FillsFrame(user, items, snap) ==
    MkFrame("object", JStr("userFills"), "object", JStr(user), "list", items, JBool(snap))

\* The working state of one pass of the loop body: the dedup maps, the
\* baseline latches, the texts handed to tg_send in order, the dedup events
\* in order (for the observers below) and whether an exception escaped;
\* tg holds the outcomes of the POSTs still to come in this pass (TRUE: it
\* succeeds; when tg is used up every POST succeeds), lost lists the texts
\* whose POST failed.
Work(seen, sent) ==
    [seen |-> seen, sent |-> sent, out |-> <<>>, ev |-> <<>>, raised |-> FALSE,
     tg |-> <<>>, lost |-> <<>>]

Raise(st) == [st EXCEPT !.raised = TRUE]

\* seen_cache.add_and_check(user, key) inside the loop; ev records the key
\* that popitem dropped, if any.
Check(st, user, key) ==
    LET r == add_and_check(st.seen, user, key)
        gone == Range(st.seen[user]) \ Range(r.maps[user])
    IN [st |-> [st EXCEPT !.seen = r.maps,
                          !.ev = IF gone = {} THEN @
                                 ELSE Append(@, [e |-> "evict", w |-> user,
                                                 k |-> CHOOSE g \in gone : TRUE])],
        dup |-> r.dup]

\* Mutant: the try/except around requests.post is missing, a failed POST
\* escapes tg_send.
tg_post_unhandled(st, text) ==
    IF st.tg = <<>> THEN st
    ELSE IF Head(st.tg) THEN [st EXCEPT !.tg = Tail(@)]
    ELSE Raise([st EXCEPT !.tg = Tail(@), !.lost = Append(@, text)])

\* Lines 27-32: requests.post either succeeds, or it fails (connection
\* error, timeout, HTTP error status): the failure is printed and tg_send
\* returns normally, the text is lost.
tg_post(st, text) ==
    IF st.tg = <<>> THEN st
    ELSE IF Head(st.tg) THEN [st EXCEPT !.tg = Tail(@)]
    ELSE [st EXCEPT !.tg = Tail(@), !.lost = Append(@, text)]

\* tg_send(text) inside the loop; kind is "baseline" or "live".
Notify(st, kind, user, key, text) ==
    tg_post([st EXCEPT !.out = tg_send(@, text),
                       !.ev = Append(@, [e |-> kind, w |-> user, k |-> key])],
            text)

\* A key recorded by a repeated snapshot (no notification).
Marked(st, user, key) ==
    [st EXCEPT !.ev = Append(@, [e |-> "mark", w |-> user, k |-> key])]

\* A duplicate the incremental loop passed over (no notification).
Skipped(st, user, key) ==
    [st EXCEPT !.ev = Append(@, [e |-> "skip", w |-> user, k |-> key])]

\* Mutant: fills[0] instead of fills[-1].
FirstOf(fills) == fills[1]

\* fills[-1]
LastOf(fills) == fills[Len(fills)]

\* Mutant: a window one fill shorter, fills[-4:].
ShorterWindow(fills) ==
    IF Len(fills) <= TrailWindow - 1 THEN fills
    ELSE SubSeq(fills, Len(fills) - TrailWindow + 2, Len(fills))

\* fills[-5:]
TrailingWindow(fills) ==
    IF Len(fills) <= TrailWindow THEN fills
    ELSE SubSeq(fills, Len(fills) - TrailWindow + 1, Len(fills))

\* Mutant: the latch is set only when the snapshot has fills
\* (baseline_sent.add moved under "if fills").
BaselineLatchIfFills(st, user, frame) ==
    LET latched == [st EXCEPT !.sent = @ \cup {user}] IN
    CASE frame.fills = "number" -> Raise(st)
      [] frame.fills = "list" /\ frame.items # <<>> ->
           LET last == LastOf(frame.items) IN
           IF ~last.obj THEN Raise(st)
           ELSE LET key == fill_key(user, last)
                    c == Check(latched, user, key)
                IN Notify(c.st, "baseline", user, key, BaselineText(user, last))
      [] OTHER -> st

\* Lines 132-138: first snapshot of a wallet.
Baseline(st, user, frame) ==
    LET latched == [st EXCEPT !.sent = @ \cup {user}] IN
    CASE frame.fills = "number" -> Raise(st)
      [] frame.fills = "list" /\ frame.items # <<>> ->
           LET last == LastOf(frame.items) IN
           IF ~last.obj THEN Raise(st)
           ELSE LET key == fill_key(user, last)
                    c == Check(latched, user, key)
                IN Notify(c.st, "baseline", user, key, BaselineText(user, last))
      [] OTHER -> latched

RECURSIVE MarkSeen(_, _, _)
\* Lines 141-142: for f in fills[-5:]: seen_cache.add_and_check(...)
MarkSeen(st, user, fs) ==
    IF fs = <<>> THEN st
    ELSE IF ~Head(fs).obj THEN Raise(st)
    ELSE LET key == fill_key(user, Head(fs)) IN
         MarkSeen(Marked(Check(st, user, key).st, user, key), user, Tail(fs))

RECURSIVE StreamInverted(_, _, _)
\* Mutant: the duplicate test is inverted.
StreamInverted(st, user, fs) ==
    IF fs = <<>> THEN st
    ELSE IF ~Head(fs).obj THEN Raise(st)
    ELSE LET f == Head(fs)
             key == fill_key(user, f)
             c == Check(st, user, key)
         IN StreamInverted(IF ~c.dup THEN Skipped(c.st, user, key)
                           ELSE Notify(c.st, "live", user, key, FillText(user, f)),
                           user, Tail(fs))

RECURSIVE Stream(_, _, _)
\* Lines 146-150: for f in fills: notify unless add_and_check says duplicate.
Stream(st, user, fs) ==
    IF fs = <<>> THEN st
    ELSE IF ~Head(fs).obj THEN Raise(st)
    ELSE LET f == Head(fs)
             key == fill_key(user, f)
             c == Check(st, user, key)
         IN Stream(IF c.dup THEN Skipped(c.st, user, key)
                   ELSE Notify(c.st, "live", user, key, FillText(user, f)),
                   user, Tail(fs))

\* The elements a for-loop or a slice gets from data.get("fills", []).
Iterable(frame) == frame.fills \in {"list", "absent"}
ItemsOf(frame) == IF frame.fills = "list" THEN frame.items ELSE <<>>

\* Lines 120-150: a userFills frame whose data is an object.
on_user_fills(st, frame) ==
    IF ~Truthy(frame.user) THEN st                \* "" is not in WALLETS
    ELSE IF frame.user.t # "str" THEN Raise(st)   \* .lower() on a non-string
    ELSE LET user == Lower(frame.user.s) IN
         IF ~InWallets(user) THEN st
         ELSE IF Truthy(frame.isSnapshot)
         THEN IF SEND_BASELINE_ON_SNAPSHOT /\ user \notin st.sent
              THEN Baseline(st, user, frame)
              ELSE IF Iterable(frame)
                   THEN MarkSeen(st, user, TrailingWindow(ItemsOf(frame)))
                   ELSE Raise(st)
         ELSE IF Iterable(frame) THEN Stream(st, user, ItemsOf(frame))
              ELSE Raise(st)

\* Lines 108-150: the body of "async for raw in ws".
on_message(st, frame) ==
    CASE frame.json = "invalid" -> st            \* json.loads raised: continue
      [] frame.json = "array" -> Raise(st)       \* msg.get on a non-object
      [] frame.channel = JStr("subscriptionResponse") -> st
      [] frame.channel = JStr("userFills") /\ frame.data = "object" ->
           on_user_fills(st, frame)
      [] OTHER -> st

(***************************************************************************)
(* Inputs of the model.                                                    *)
(***************************************************************************)
\* Three fills with three distinct keys: keyed by tid, by hash, by composite.
FA == MkFill(JInt(1), JStr("0xh1"), JInt(10), JStr("BTC"), JStr("B"), JStr("9"),
             JStr("2"), JInt(7), JStr("0"), JBool(TRUE))
FB == MkFill(None, JStr("0xh2"), JInt(11), JStr("ETH"), JStr("A"), JStr("3"),
             JStr("1"), JInt(8), None, JBool(FALSE))
FC == MkFill(None, None, JInt(12), JStr("SOL"), JStr("B"), JStr("5"),
             JStr("4"), None, None, None)
\* The same trade as FA (same tid) reported with other display fields.
FA2 == [FA EXCEPT !.px = JStr("8"), !.hash = None]

Fills == {FA, FB, FC}

\* Longest fills array enumerated exhaustively.
MaxFills == 2

RECURSIVE SeqsUpTo(_, _)
SeqsUpTo(S, n) ==
    IF n = 0 THEN {<<>>}
    ELSE LET shorter == SeqsUpTo(S, n - 1) IN
         shorter \cup {Append(q, x) : q \in {r \in shorter : Len(r) = n - 1}, x \in S}

\* Longer arrays: a key repeated inside one array, a key repeated after
\* MaxSize other keys, arrays longer than the trailing window of a repeated
\* snapshot, and a trade repeated under other display fields.
LongFills ==
    {<<FC, FB, FC>>, <<FA, FB, FC, FA>>, <<FA, FB, FC, FC, FC, FC>>,
     <<FC, FA, FB, FB, FB, FB>>, <<FA, FA2>>}

FullSeqs == SeqsUpTo(Fills, MaxFills) \cup LongFills
ShortSeqs == {<<>>, <<FA>>, <<FB>>, <<FB, FA>>}

\* Frames of the documented shape for a watched wallet.
FramesFor(user, seqs) == {FillsFrame(user, fs, snap) : fs \in seqs, snap \in BOOLEAN}

\* The first wallet gets every array; the others get short ones (they are
\* there for what one wallet's frames do to another wallet's state).
GoodFrames ==
    UNION {FramesFor(WALLETS[i], IF i = 1 THEN FullSeqs ELSE ShortSeqs) : i \in 1..Len(WALLETS)}

\* Frames the loop ignores or chokes on.
OddFrames ==
    {MkFrame("invalid", None, "other", None, "absent", <<>>, None),
     MkFrame("array", None, "other", None, "absent", <<>>, None),
     MkFrame("object", JStr("subscriptionResponse"), "object", None, "absent", <<>>, None),
     MkFrame("object", JStr("pong"), "other", None, "absent", <<>>, None),
     MkFrame("object", JStr("userFills"), "other", None, "absent", <<>>, None),
     FillsFrame("0xA", <<FB>>, FALSE),
     FillsFrame("0xc", <<FA>>, FALSE),
     MkFrame("object", JStr("userFills"), "object", None, "list", <<FA>>, JBool(FALSE)),
     MkFrame("object", JStr("userFills"), "object", JInt(5), "list", <<FA>>, JBool(FALSE)),
     MkFrame("object", JStr("userFills"), "object", JStr("0xa"), "absent", <<>>, None),
     MkFrame("object", JStr("userFills"), "object", JStr("0xa"), "list", <<FC>>, JInt(1)),
     MkFrame("object", JStr("userFills"), "object", JStr("0xb"), "null", <<>>, JBool(TRUE)),
     MkFrame("object", JStr("userFills"), "object", JStr("0xb"), "null", <<>>, JBool(FALSE)),
     MkFrame("object", JStr("userFills"), "object", JStr("0xa"), "number", <<>>, JBool(TRUE)),
     FillsFrame("0xa", <<FA, NotAFill>>, TRUE),
     FillsFrame("0xb", <<FB, NotAFill, FA>>, FALSE)}

Frames == GoodFrames \cup OddFrames

\* Inputs of fill_key taken alone: fills that differ in tid (a number, the
\* same number as a string, absent), in hash and in a display field.
KeyTids == {None, JInt(1), JInt(2), JStr("1")}
KeyHashes == {None, JStr("0xh1"), JStr("0xh2")}
KeyFills ==
    {[FC EXCEPT !.tid = t, !.hash = h, !.px = p] :
        t \in KeyTids, h \in KeyHashes, p \in {JStr("5"), JStr("6")}}
KeyInputs == {[user |-> u, f1 |-> f1, f2 |-> f2] : u \in Range(WALLETS), f1, f2 \in KeyFills}
NoKeyInput == [user |-> ""]

\* The except branch is counted up to this many runs.
MaxCount == 7

(***************************************************************************)
(* State.                                                                  *)
(*   pc            where ws_loop stands: "connect" (top of the while loop),*)
(*                 "stream" (waiting in async for), "sleep" (in            *)
(*                 asyncio.sleep(backoff)); in SpecDelivery also "posting" *)
(*                 (inside the requests.post calls of tg_send)             *)
(*   backoff       the local of ws_loop                                    *)
(*   seen_cache    seen_cache._maps                                        *)
(*   baseline_sent the module-level set                                    *)
(*   subs          subscribe requests sent on the current connection       *)
(*   out           texts handed to tg_send by the last step, in order      *)
(*   undelivered   those of them whose POST failed                         *)
(* Observers (history, not program state):                                 *)
(*   announced     a "connected" text has been emitted                     *)
(*   probe         one (wallet, key) pair, fixed at start                  *)
(*   obs           what happened to the probe so far                       *)
(*   failures      how many times the except branch ran, counted up to     *)
(*                 MaxCount                                                *)
(* fill_key taken alone:                                                   *)
(*   kin           a wallet and two fills                                  *)
(*   kout          the keys fill_key gave them                             *)
(***************************************************************************)
VARIABLES pc, backoff, seen_cache, baseline_sent, subs, out, undelivered,
          announced, probe, obs, failures, kin, kout

vars == <<pc, backoff, seen_cache, baseline_sent, subs, out, undelivered,
          announced, probe, obs, failures, kin, kout>>

\* The variables of fill_key taken alone.
keyvars == <<kin, kout>>

Wallets == Range(WALLETS)
ProbePairs == {[w |-> w, k |-> fill_key(w, f)] : w \in Wallets, f \in Fills}
NoProbe == [w |-> "", k |-> ""]

\* obs: total     notifications for the probe, counted up to 2
\*      noted     the probe was notified and not evicted since
\*      marked    the probe was recorded by a repeated snapshot and not evicted since
\*      windowed  the probe was ever recorded by a repeated snapshot
\*      skipped   an incremental update ever found the probe a duplicate
\*      renoted, remarked, rewindowed: an incremental update notified the
\*                probe while noted, marked, windowed held
Obs0 ==
    [total |-> 0, noted |-> FALSE, marked |-> FALSE, windowed |-> FALSE,
     skipped |-> FALSE, renoted |-> FALSE, remarked |-> FALSE, rewindowed |-> FALSE]

ObserveOne(o, p, e) ==
    IF e.w # p.w \/ e.k # p.k THEN o
    ELSE CASE e.e = "evict" -> [o EXCEPT !.noted = FALSE, !.marked = FALSE]
           [] e.e = "mark" -> [o EXCEPT !.marked = TRUE, !.windowed = TRUE]
           [] e.e = "skip" -> [o EXCEPT !.skipped = TRUE]
           [] e.e = "baseline" -> [o EXCEPT !.total = Min(@ + 1, 2), !.noted = TRUE]
           [] OTHER -> [o EXCEPT !.total = Min(@ + 1, 2), !.noted = TRUE,
                                 !.renoted = @ \/ o.noted,
                                 !.remarked = @ \/ o.marked,
                                 !.rewindowed = @ \/ o.windowed]

RECURSIVE Observe(_, _, _)
Observe(o, p, ev) ==
    IF ev = <<>> THEN o ELSE Observe(ObserveOne(o, p, Head(ev)), p, Tail(ev))

Start ==
    /\ pc = "connect"
    /\ backoff = RECONNECT_BASE
    /\ seen_cache = [w \in Wallets |-> <<>>]
    /\ baseline_sent = {}
    /\ subs = <<>>
    /\ out = <<>>
    /\ undelivered = <<>>
    /\ announced = FALSE
    /\ obs = Obs0
    /\ failures = 0

Init == Start /\ probe = NoProbe /\ kin = NoKeyInput /\ kout = <<>>

\* The same program, with one (wallet, key) pair under observation.
InitObserved == Start /\ probe \in ProbePairs /\ kin = NoKeyInput /\ kout = <<>>

\* Lines 154-157: except Exception: tg_send(...), then asyncio.sleep(backoff).
OnException(o) ==
    /\ out' = tg_send(o, DisconnectedText)
    /\ failures' = Min(failures + 1, MaxCount)
    /\ pc' = "sleep"

\* Mutant: the subscribe loop walks the watch list backwards.
ConnectSubscribesReversed ==
    /\ pc = "connect"
    /\ subs' = [i \in 1..Len(WALLETS) |-> SubscribeMsg(WALLETS[Len(WALLETS) + 1 - i])]
    /\ out' = tg_send(<<>>, ConnectedText)
    /\ announced' = TRUE
    /\ pc' = "stream"
    /\ UNCHANGED <<backoff, seen_cache, baseline_sent, undelivered, probe, obs,
                   failures, keyvars>>

\* Mutant: the dedup maps and the latches are created per connection.
ConnectResets ==
    /\ pc = "connect"
    /\ subs' = [i \in 1..Len(WALLETS) |-> SubscribeMsg(WALLETS[i])]
    /\ out' = tg_send(<<>>, ConnectedText)
    /\ announced' = TRUE
    /\ pc' = "stream"
    /\ seen_cache' = [w \in Range(WALLETS) |-> <<>>]
    /\ baseline_sent' = {}
    /\ UNCHANGED <<backoff, undelivered, probe, obs, failures, keyvars>>

\* Lines 101-105: connect, subscribe every wallet in order, announce.
Connect ==
    /\ pc = "connect"
    /\ subs' = [i \in 1..Len(WALLETS) |-> SubscribeMsg(WALLETS[i])]
    /\ out' = tg_send(<<>>, ConnectedText)
    /\ announced' = TRUE
    /\ pc' = "stream"
    /\ UNCHANGED <<backoff, seen_cache, baseline_sent, undelivered, probe, obs,
                   failures, keyvars>>

\* websockets.connect raises (n = 0), or the send of subscribe request
\* n + 1 raises after n requests went out.
ConnectFail(n) ==
    /\ pc = "connect"
    /\ subs' = [i \in 1..n |-> SubscribeMsg(WALLETS[i])]
    /\ OnException(<<>>)
    /\ UNCHANGED <<backoff, seen_cache, baseline_sent, undelivered, announced,
                   probe, obs, keyvars>>

\* What the loop body does with a frame in the current state.
Step(frame) == on_message(Work(seen_cache, baseline_sent), frame)

\* Lines 107-150: one frame arrives and the loop body runs on it.
OnFrame(frame) ==
    /\ pc = "stream"
    /\ \E r \in {Step(frame)} :
       /\ seen_cache' = r.seen
       /\ baseline_sent' = r.sent
       /\ obs' = Observe(obs, probe, r.ev)
       /\ undelivered' = r.lost
       /\ IF r.raised THEN OnException(r.out)
          ELSE out' = r.out /\ pc' = "stream" /\ failures' = failures
    /\ UNCHANGED <<backoff, subs, announced, probe, keyvars>>

\* The connection ends with an error while the loop waits for a frame
\* (transport failure, ping timeout, close with an error code):
\* "async for" raises ConnectionClosedError.
StreamError ==
    /\ pc = "stream"
    /\ OnException(<<>>)
    /\ undelivered' = <<>>
    /\ UNCHANGED <<backoff, seen_cache, baseline_sent, subs, announced, probe, obs,
                   keyvars>>

\* The peer closes the connection normally (close code 1000 or 1001):
\* "async for" ends without an exception, the "async with" block exits and
\* the while loop starts over.
StreamClosedOK ==
    /\ pc = "stream"
    /\ out' = <<>>
    /\ pc' = "connect"
    /\ undelivered' = <<>>
    /\ UNCHANGED <<backoff, seen_cache, baseline_sent, subs, announced, probe, obs,
                   failures, keyvars>>

\* Mutant: backoff doubles without the cap.
WakeNoCap ==
    /\ pc = "sleep"
    /\ backoff' = backoff * 2
    /\ out' = <<>>
    /\ pc' = "connect"
    /\ UNCHANGED <<seen_cache, baseline_sent, subs, undelivered, announced, probe,
                   obs, failures, keyvars>>

\* Mutant: the loop ends once backoff has reached the cap
\* ("while backoff < RECONNECT_MAX").
WakeGivesUp ==
    /\ pc = "sleep"
    /\ backoff < RECONNECT_MAX
    /\ backoff' = Min(backoff * 2, RECONNECT_MAX)
    /\ out' = <<>>
    /\ pc' = "connect"
    /\ UNCHANGED <<seen_cache, baseline_sent, subs, undelivered, announced, probe,
                   obs, failures, keyvars>>

\* Lines 157-158: the sleep ends, backoff doubles up to RECONNECT_MAX.
Wake ==
    /\ pc = "sleep"
    /\ backoff' = Min(backoff * 2, RECONNECT_MAX)
    /\ out' = <<>>
    /\ pc' = "connect"
    /\ UNCHANGED <<seen_cache, baseline_sent, subs, undelivered, announced, probe,
                   obs, failures, keyvars>>

\* Failures are explored while backoff is below this value.
Horizon == 2
MayFail == backoff < Horizon

Next ==
    \/ Connect
    \/ \E n \in 0..(Len(WALLETS) - 1) : MayFail /\ ConnectFail(n)
    \/ \E frame \in Frames : OnFrame(frame) /\ (pc' = "sleep" => MayFail)
    \/ MayFail /\ StreamError
    \/ StreamClosedOK
    \/ Wake

Spec == Init /\ [][Next]_vars

\* The runs with a probe: every array, for the probe's wallet only.
ObservedFrames == FramesFor(probe.w, FullSeqs)

NextObserved ==
    \/ Connect
    \/ \E n \in 0..(Len(WALLETS) - 1) : MayFail /\ ConnectFail(n)
    \/ \E frame \in ObservedFrames : OnFrame(frame) /\ (pc' = "sleep" => MayFail)
    \/ MayFail /\ StreamError
    \/ StreamClosedOK
    \/ Wake

SpecObserved == InitObserved /\ [][NextObserved]_vars

\* The reconnect loop without a limit on failures: a frame of each kind for
\* the first wallet, a frame that is not a JSON object and a snapshot whose
\* second fill is not a record.
RetryFrames ==
    FramesFor(WALLETS[1], {<<FA>>})
        \cup {MkFrame("array", None, "other", None, "absent", <<>>, None),
              FillsFrame(WALLETS[1], <<FA, NotAFill>>, TRUE)}

ConnectAttempt == Connect \/ \E n \in 0..(Len(WALLETS) - 1) : ConnectFail(n)

NextRetry ==
    \/ Connect
    \/ \E n \in 0..(Len(WALLETS) - 1) : ConnectFail(n)
    \/ \E frame \in RetryFrames : OnFrame(frame)
    \/ StreamError
    \/ StreamClosedOK
    \/ Wake

\* The loop with the delivery of the notifications made visible: the
\* outcome of every POST is an input, and the time the loop spends inside
\* requests.post is a state of its own.
DeliveryFrames == FramesFor(WALLETS[1], ShortSeqs \cup {<<FC>>})
Outcomes == SeqsUpTo(BOOLEAN, MaxFills)

\* What the loop body does with a frame whose POSTs end as tg says.
StepTg(frame, tg) ==
    on_message([Work(seen_cache, baseline_sent) EXCEPT !.tg = tg], frame)

\* Lines 107-150 with lines 26-32: one frame arrives and the loop body runs
\* on it.  tg_send is called from the coroutine itself and requests.post
\* (line 28, timeout 10 s) blocks the thread of the event loop: until the
\* last POST of the frame has returned, the loop is not back in "async for".
OnFrameTg(frame, tg) ==
    /\ pc = "stream"
    /\ \E r \in {StepTg(frame, tg)} :
       /\ seen_cache' = r.seen
       /\ baseline_sent' = r.sent
       /\ obs' = Observe(obs, probe, r.ev)
       /\ undelivered' = r.lost
       /\ IF r.raised THEN OnException(r.out)
          ELSE /\ out' = r.out
               /\ failures' = failures
               /\ pc' = IF r.out = <<>> THEN "stream" ELSE "posting"
    /\ UNCHANGED <<backoff, subs, announced, probe, keyvars>>

\* The last requests.post of the frame returned or raised (tg_send catches
\* it): the loop is back in "async for".
PostReturns ==
    /\ pc = "posting"
    /\ pc' = "stream"
    /\ UNCHANGED <<backoff, seen_cache, baseline_sent, subs, out, undelivered,
                   announced, probe, obs, failures, keyvars>>

NextDelivery ==
    \/ Connect
    \/ \E frame \in DeliveryFrames, tg \in Outcomes : OnFrameTg(frame, tg)
    \/ PostReturns
    \/ MayFail /\ StreamError
    \/ StreamClosedOK
    \/ Wake

SpecDelivery == Init /\ [][NextDelivery]_vars

\* fill_key taken alone: a wallet and two fills are drawn, fill_key is
\* applied to both.
InitKey == Start /\ probe = NoProbe /\ kin \in KeyInputs /\ kout = <<>>

ApplyKey ==
    /\ kout = <<>>
    /\ kout' = <<fill_key(kin.user, kin.f1), fill_key(kin.user, kin.f2)>>
    /\ UNCHANGED <<pc, backoff, seen_cache, baseline_sent, subs, out, undelivered,
                   announced, probe, obs, failures, kin>>

NextKey == ApplyKey

SpecKey == InitKey /\ [][NextKey]_vars

\* asyncio.sleep(backoff) returns after a finite time, and
\* websockets.connect returns or raises after at most its open timeout.
SpecRetry ==
    Init /\ [][NextRetry]_vars /\ WF_vars(Wake) /\ WF_vars(ConnectAttempt)

(***************************************************************************)
(* Claims.                                                                 *)
(***************************************************************************)

IsSnapshot(frame) == Truthy(frame.isSnapshot)
UserOf(frame) == Lower(frame.user.s)
KeysIn(user, fs) == {fill_key(user, fs[i]) : i \in 1..Len(fs)}

RECURSIVE NoLiveBeforeEvict(_, _, _)
\* In the event sequence ev, key k of wallet w is not notified by an
\* incremental update unless it was evicted first.
NoLiveBeforeEvict(ev, w, k) ==
    IF ev = <<>> THEN TRUE
    ELSE IF Head(ev).w = w /\ Head(ev).k = k /\ Head(ev).e = "live" THEN FALSE
    ELSE IF Head(ev).w = w /\ Head(ev).k = k /\ Head(ev).e = "evict" THEN TRUE
    ELSE NoLiveBeforeEvict(Tail(ev), w, k)

\* The wallet's dedup set at the moment fill i of an incremental update is
\* reached: the set left by the update's first i - 1 fills.
SeenAt(u, items, i) ==
    Range(Step(FillsFrame(u, SubSeq(items, 1, i - 1), FALSE)).seen[u])

RECURSIVE NovelFrom(_, _, _)
\* One text per fill, from fill i on, whose key is not in the set when reached.
NovelFrom(u, items, i) ==
    IF i > Len(items) THEN <<>>
    ELSE (IF fill_key(u, items[i]) \in SeenAt(u, items, i) THEN <<>>
          ELSE <<FillText(u, items[i])>>) \o NovelFrom(u, items, i + 1)

\* The baseline texts of wallet w among the texts o.
BaselineTexts(w) == {BaselineText(w, f) : f \in Fills \cup {FA2}}
BaselineCount(o, w) == Cardinality({i \in 1..Len(o) : o[i] \in BaselineTexts(w)})

\* The orders in which every key of S can be looked up once.
Orders(S) == {q \in [1..Cardinality(S) -> S] : Range(q) = S}

RECURSIVE Touch(_, _, _)
\* add_and_check on each key of q in turn: the maps left, and whether every
\* call reported a duplicate.
Touch(maps, w, q) ==
    IF q = <<>> THEN [maps |-> maps, alldup |-> TRUE]
    ELSE LET r == add_and_check(maps, w, Head(q))
             rest == Touch(r.maps, w, Tail(q))
         IN [maps |-> rest.maps, alldup |-> r.dup /\ rest.alldup]

\* Keys a wallet can be asked about: those of the fills, and one more.
KeysOf(w) == {fill_key(w, f) : f \in Fills} \cup {w \o ":tid:99"}

\* C1, as stated: for every watched wallet w and key k, at most one
\* notification (baseline or live) is ever emitted for (w, k).
C1_AtMostOnceEver == obs.total <= 1

\* C1, amended: an incremental update never notifies (w, k) while an earlier
\* notification (baseline or live) of (w, k) has not been followed by the
\* capacity eviction of k from w's dedup set.
C1_NoRepeatWhileSeen == ~obs.renoted

\* The probe was notified exactly once, only notifications ever put it in
\* the set, and a later incremental update found it a duplicate.
C1_Witness == obs.total = 1 /\ obs.noted /\ obs.skipped /\ ~obs.windowed

\* C2: a snapshot with at least one fill, for a wallet whose baseline is
\* not latched, emits exactly one notification, the baseline text of its
\* last fill, and an incremental update that follows and contains a fill of
\* that key emits no notification for it unless the key was evicted first.
C2_FirstSnapshotBaseline ==
    pc = "stream" =>
    \A frame \in GoodFrames :
        (IsSnapshot(frame) /\ frame.items # <<>> /\ UserOf(frame) \notin baseline_sent) =>
        \E r \in {Step(frame)} :
            LET u == UserOf(frame)
                last == frame.items[Len(frame.items)]
            IN /\ ~r.raised
               /\ r.out = <<BaselineText(u, last)>>
               /\ \A inc \in GoodFrames :
                    (~IsSnapshot(inc) /\ UserOf(inc) = u
                        /\ fill_key(u, last) \in KeysIn(u, inc.items)) =>
                    NoLiveBeforeEvict(on_message(Work(r.seen, r.sent), inc).ev,
                                      u, fill_key(u, last))

\* The last step emitted one baseline text, latched the wallet and recorded
\* the key of the fill it describes.
C2_Witness ==
    \E w \in Wallets, f \in Fills :
        /\ out = <<BaselineText(w, f)>>
        /\ w \in baseline_sent
        /\ fill_key(w, f) \in Range(seen_cache[w])

\* C3, as stated: an incremental update notifies exactly the fills whose key
\* is not in the wallet's dedup set when they are reached, once each, in the
\* order of the update, and a key repeated inside the update is notified
\* only at its first occurrence.
C3_FirstOccurrenceOnly ==
    /\ pc = "stream" =>
       \A frame \in GoodFrames :
           ~IsSnapshot(frame) => Step(frame).out = NovelFrom(UserOf(frame), frame.items, 1)
    /\ \A i, j \in 1..Len(out) : i < j => out[i] # out[j]

\* C3, amended: as above, but a key repeated inside the update is notified
\* again only when it was evicted from the set between the two occurrences.
C3_NovelInOrder ==
    pc = "stream" =>
    \A frame \in GoodFrames :
        ~IsSnapshot(frame) =>
        \E r \in {Step(frame)} :
            /\ ~r.raised
            /\ r.out = NovelFrom(UserOf(frame), frame.items, 1)
            /\ \A k \in KeysIn(UserOf(frame), frame.items) :
                 ~Observe(Obs0, [w |-> UserOf(frame), k |-> k], r.ev).renoted

\* The last step notified FC then FB and left FC more recent than FB: the
\* update was FC, FB, FC, and its third fill was passed over as a duplicate.
C3_Witness ==
    \E w \in Wallets :
        /\ out = <<FillText(w, FC), FillText(w, FB)>>
        /\ seen_cache[w] = <<fill_key(w, FB), fill_key(w, FC)>>

\* C4, as stated: a snapshot for a wallet whose baseline is latched emits no
\* notification, and no later incremental update ever notifies a fill that
\* was among the last 5 fills of such a snapshot.
C4_WindowNeverNotified ==
    /\ pc = "stream" =>
       \A frame \in ObservedFrames :
           (IsSnapshot(frame) /\ UserOf(frame) \in baseline_sent) => Step(frame).out = <<>>
    /\ ~obs.rewindowed

\* C4, amended: such a snapshot emits no notification and records the keys
\* of its last 5 fills (a key is missing afterwards only when MaxSize other
\* keys of the window came after it), and no incremental update notifies a
\* key so recorded until capacity eviction has removed it from the set.
C4_WindowSeenUntilEvicted ==
    /\ pc = "stream" =>
       \A frame \in ObservedFrames :
           (IsSnapshot(frame) /\ UserOf(frame) \in baseline_sent) =>
           \E r \in {Step(frame)} :
               LET u == UserOf(frame)
                   n == Len(frame.items)
                   later(i) == {fill_key(u, frame.items[j]) : j \in (i + 1)..n}
                                  \ {fill_key(u, frame.items[i])}
               IN /\ ~r.raised
                  /\ r.out = <<>>
                  /\ r.sent = baseline_sent
                  /\ \A i \in 1..n :
                       i > n - TrailWindow =>
                          \/ fill_key(u, frame.items[i]) \in Range(r.seen[u])
                          \/ Cardinality(later(i)) >= MaxSize
    /\ ~obs.remarked

\* The probe was never notified, a repeated snapshot recorded it, and a
\* later incremental update passed it over as a duplicate.
C4_Witness == obs.marked /\ obs.skipped /\ obs.total = 0

\* C5: the baseline latch of a wallet is never cleared; a baseline text for
\* a wallet is emitted only by a step that takes its latch from unset to
\* set, one text in that step; every snapshot of the documented shape, with
\* or without fills, leaves the wallet latched, and a snapshot for a latched
\* wallet emits no baseline text.
C5_BaselineLatch ==
    /\ [][baseline_sent \subseteq baseline_sent']_vars
    /\ [][\A w \in Wallets :
            BaselineCount(out', w) > 0 =>
               /\ w \notin baseline_sent
               /\ w \in baseline_sent'
               /\ BaselineCount(out', w) = 1]_vars
    /\ [](pc = "stream" =>
          \A frame \in GoodFrames :
              IsSnapshot(frame) =>
              \E r \in {Step(frame)} :
                  /\ ~r.raised
                  /\ UserOf(frame) \in r.sent
                  /\ UserOf(frame) \in baseline_sent =>
                        \A w \in Wallets : BaselineCount(r.out, w) = 0)

\* A wallet is latched and nothing was ever recorded for it: its first
\* snapshot had no fills.
C5_Witness ==
    \E w \in Wallets : w \in baseline_sent /\ seen_cache[w] = <<>> /\ pc = "stream"

\* C6: add_and_check(w, k) reports a duplicate exactly when k was passed to
\* it before and has not been evicted since; after a call k is in the set
\* and the next call reports a duplicate.
C6_DuplicateUntilEvicted ==
    LET inset == probe.k \in Range(seen_cache[probe.w])
        r == add_and_check(seen_cache, probe.w, probe.k)
    IN /\ inset <=> (obs.noted \/ obs.marked)
       /\ r.dup <=> inset
       /\ probe.k \in Range(r.maps[probe.w])
       /\ add_and_check(r.maps, probe.w, probe.k).dup

\* The probe is in the set and an incremental update found it a duplicate.
C6_Witness ==
    /\ probe.k \in Range(seen_cache[probe.w])
    /\ obs.skipped
    /\ obs.noted \/ obs.marked

\* C7: with the set full, after every key in it was looked up (each lookup
\* reports a duplicate) the insertion of a key not in it evicts exactly the
\* key looked up first; after a single lookup the key looked up survives the
\* insertion, which evicts exactly one other key.
C7_EvictsLeastRecent ==
    \A w \in Wallets :
        Len(seen_cache[w]) = MaxSize =>
        \A y \in KeysOf(w) \ Range(seen_cache[w]) :
            /\ \A q \in Orders(Range(seen_cache[w])) :
                 \E t \in {Touch(seen_cache, w, q)} :
                 \E r \in {add_and_check(t.maps, w, y)} :
                     /\ t.alldup
                     /\ ~r.dup
                     /\ Range(r.maps[w]) = (Range(seen_cache[w]) \ {q[1]}) \cup {y}
                     /\ Len(r.maps[w]) = MaxSize
            /\ \A x \in Range(seen_cache[w]) :
                 \E t \in {add_and_check(seen_cache, w, x)} :
                 \E r \in {add_and_check(t.maps, w, y)} :
                     /\ t.dup
                     /\ MaxSize > 1 => x \in Range(r.maps[w])
                     /\ Cardinality(Range(seen_cache[w]) \ Range(r.maps[w])) = 1
                     /\ Len(r.maps[w]) = MaxSize

\* The probe was looked up as a duplicate at some time, and was evicted
\* after its last notification; the set is full.
C7_Witness ==
    /\ obs.skipped
    /\ obs.total >= 1
    /\ ~obs.noted
    /\ ~obs.marked
    /\ Len(seen_cache[probe.w]) = MaxSize

\* C8: each wallet's dedup set holds at most MaxSize keys, each once.
C8_SizeBounded ==
    \A w \in Wallets :
        /\ Len(seen_cache[w]) <= MaxSize
        /\ Cardinality(Range(seen_cache[w])) = Len(seen_cache[w])

\* The last step notified more distinct fills of a wallet than the set can
\* hold, and the set holds MaxSize keys.
C8_Witness ==
    \E w \in Wallets :
        /\ Len(seen_cache[w]) = MaxSize
        /\ Range(out) \subseteq {FillText(w, f) : f \in Fills}
        /\ Cardinality(Range(out)) > MaxSize

\* C9, as stated: a "connected" text is emitted only at the first entry into
\* streaming: once one was emitted, no later step emits another.
C9_ConnectedOnce == [][announced => ConnectedText \notin Range(out')]_vars

\* C10, as stated: every step that ends a streaming connection emits
\* exactly one "disconnected" text and enters the backoff sleep.
C10_EveryEndBacksOff ==
    [][(pc = "stream" /\ pc' # "stream") =>
          /\ pc' = "sleep"
          /\ Cardinality({i \in 1..Len(out') : out'[i] = DisconnectedText}) = 1]_vars

\* The subscribe requests of a connection: one per watched wallet, in
\* watch-list order.
SubscribeAll == [i \in 1..Len(WALLETS) |-> SubscribeMsg(WALLETS[i])]

\* C11: whenever the loop is streaming, exactly one subscribe request per
\* watched wallet has been sent on the connection, in watch-list order, and
\* a step that processes a frame (it changes the dedup sets, the latches or
\* the emitted texts while streaming) is taken only after all of them.
C11_SubscribedBeforeFrames ==
    /\ [](pc = "stream" => subs = SubscribeAll)
    /\ [][(seen_cache' # seen_cache \/ baseline_sent' # baseline_sent)
            => pc = "stream" /\ subs = SubscribeAll /\ subs' = subs]_vars

\* After a failure and a reconnect, a frame was processed and notified on a
\* connection that carries the full list of subscribe requests.
C11_Witness ==
    /\ pc = "stream"
    /\ failures > 0
    /\ subs = SubscribeAll
    /\ out # <<>>
    /\ out # <<ConnectedText>>

RECURSIVE Pow2(_)
Pow2(n) == IF n = 0 THEN 1 ELSE 2 * Pow2(n - 1)

\* C12: the n-th sleep lasts min(2^(n-1) * RECONNECT_BASE, RECONNECT_MAX);
\* the end of a sleep sets backoff to min(2 * backoff, RECONNECT_MAX), no
\* other step changes it, and it never exceeds RECONNECT_MAX.
C12_BackoffDoubles ==
    /\ [](backoff <= RECONNECT_MAX)
    /\ [](pc = "sleep" /\ failures < MaxCount
            => backoff = Min(Pow2(failures - 1) * RECONNECT_BASE, RECONNECT_MAX))
    /\ [][pc = "sleep" => backoff' = Min(2 * backoff, RECONNECT_MAX)]_vars
    /\ [][pc # "sleep" => backoff' = backoff]_vars

\* The sixth sleep in a row of failures: 32 capped to RECONNECT_MAX.
C12_Witness == pc = "sleep" /\ failures = 6 /\ backoff = RECONNECT_MAX

\* C13, as stated: a sleep entered from streaming lasts RECONNECT_BASE,
\* whatever failures came before the connection was made.
C13_ResetOnStreaming ==
    [][pc = "stream" /\ pc' = "sleep" => backoff = RECONNECT_BASE]_vars

\* C14: after every failure the sleep ends and the loop is back at the
\* top of "while True", and from there a connection attempt is made; no
\* state of the loop is without a next step.
C14_AlwaysRetries ==
    /\ (pc = "sleep") ~> (pc = "connect")
    /\ (pc = "connect") ~> (pc # "connect")
    /\ [](ENABLED <<NextRetry>>_vars)

\* The loop is streaming again after failures that took backoff to the cap.
C14_Witness == pc = "stream" /\ failures >= 6 /\ backoff = RECONNECT_MAX

\* A frame that is not JSON, is not a JSON object, has no (or a non-string)
\* channel, or is a userFills frame whose data is not an object, whose user
\* is not a string, whose fills is not a list or holds a non-record.
Malformed(frame) ==
    \/ frame.json # "object"
    \/ frame.channel.t # "str"
    \/ /\ frame.channel = JStr("userFills")
       /\ \/ frame.data # "object"
          \/ frame.user.t # "str"
          \/ frame.fills # "list"
          \/ \E i \in 1..Len(frame.items) : ~frame.items[i].obj

\* C15, as stated: a malformed frame is dropped: no notification, dedup
\* sets and latches unchanged, and the loop stays in streaming.
C15_MalformedDropped ==
    pc = "stream" =>
    \A frame \in {f \in OddFrames : Malformed(f)} :
        \E r \in {Step(frame)} :
            /\ ~r.raised
            /\ r.out = <<>>
            /\ r.seen = seen_cache
            /\ r.sent = baseline_sent

\* The state right after a connection was made.
AfterConnect == pc = "stream" /\ out = <<ConnectedText>>

\* The keys of wallet w that the events ev notified from an incremental update.
LiveKeys(ev, w) ==
    {ev[i].k : i \in {j \in 1..Len(ev) : ev[j].w = w /\ ev[j].e = "live"}}

\* C16, as stated: a key that was in a wallet's dedup set when the
\* connection dropped is not notified by an incremental update after the
\* reconnect, and a snapshot after the reconnect for a latched wallet emits
\* nothing.
C16_NeverAfterReconnect ==
    AfterConnect =>
    \A frame \in GoodFrames :
        \E r \in {Step(frame)} :
            LET u == UserOf(frame) IN
            /\ ~IsSnapshot(frame) => LiveKeys(r.ev, u) \cap Range(seen_cache[u]) = {}
            /\ IsSnapshot(frame) /\ u \in baseline_sent => r.out = <<>>

\* C16, amended: no step of the reconnect loop other than a frame changes
\* the dedup sets or the latches; and on the connection made after a drop,
\* an incremental update notifies no key that is in the wallet's set unless
\* capacity eviction removed it first, and a snapshot for a latched wallet
\* emits nothing.
C16_StatePersists ==
    /\ [][ConnectAttempt \/ StreamError \/ StreamClosedOK \/ Wake
            => UNCHANGED <<seen_cache, baseline_sent>>]_vars
    /\ [](AfterConnect =>
           \A frame \in GoodFrames :
               \E r \in {Step(frame)} :
                   LET u == UserOf(frame) IN
                   /\ ~IsSnapshot(frame) =>
                        \A k \in Range(seen_cache[u]) : NoLiveBeforeEvict(r.ev, u, k)
                   /\ IsSnapshot(frame) /\ u \in baseline_sent => r.out = <<>>)

\* A connection made after a failure finds a wallet latched and its dedup
\* set holding keys.
C16_Witness ==
    /\ AfterConnect
    /\ failures > 0
    /\ \E w \in Wallets : w \in baseline_sent /\ seen_cache[w] # <<>>

\* C17: for every frame, the dedup sets, the latches, the texts handed to
\* tg_send and whether the loop leaves streaming are the same whatever the
\* outcome of each POST; after POSTs that failed the loop is streaming again.
C17_DeliveryOutcomeIgnored ==
    /\ [](pc = "stream" =>
           \A frame \in DeliveryFrames, tg \in Outcomes :
               \E a \in {StepTg(frame, <<>>)}, b \in {StepTg(frame, tg)} :
                   /\ b.seen = a.seen
                   /\ b.sent = a.sent
                   /\ b.out = a.out
                   /\ b.raised = a.raised)
    /\ [](undelivered # <<>> => pc \in {"posting", "stream"})
    /\ [][pc = "posting" => pc' = "stream"]_vars

\* A frame made two notifications, the POST of one of them failed, and the
\* loop is streaming with both keys recorded.
C17_Witness ==
    /\ pc = "stream"
    /\ Len(out) = 2
    /\ Len(undelivered) = 1
    /\ Len(seen_cache[WALLETS[1]]) = 2

\* C18, as stated: while a delivery is pending the reader can consume the
\* next frame.
C18_ReadsWhilePending ==
    pc = "posting" =>
    ENABLED (\E frame \in DeliveryFrames, tg \in Outcomes : OnFrameTg(frame, tg))

\* The field that identifies a fill under the precedence tid > hash >
\* composite: its kind and its JSON value.
IdKind(f) == IF f.tid # None THEN "tid" ELSE IF f.hash # None THEN "hash" ELSE "composite"
IdValue(f) == IF f.tid # None THEN f.tid ELSE f.hash

\* Same tid, or no tid and same hash: the same key.
SameIdSameKey ==
    /\ kin.f1.tid # None /\ kin.f1.tid = kin.f2.tid => kout[1] = kout[2]
    /\ (kin.f1.tid = None /\ kin.f2.tid = None
            /\ kin.f1.hash # None /\ kin.f1.hash = kin.f2.hash) => kout[1] = kout[2]

\* C19, as stated: same tid gives the same key whatever the other fields,
\* no tid and same hash gives the same key, and two fills whose identifying
\* field differs (different tid, no tid and different hash, one keyed by tid
\* and the other by hash) get different keys.
C19_KeyFollowsId ==
    kout # <<>> =>
    /\ SameIdSameKey
    /\ (IdKind(kin.f1) # "composite" /\ IdKind(kin.f2) # "composite"
            /\ (IdKind(kin.f1) # IdKind(kin.f2) \/ IdValue(kin.f1) # IdValue(kin.f2)))
        => kout[1] # kout[2]

\* C19, amended: as stated, with "differs" read on the text str() gives the
\* identifying value: a tid (or hash) that is a number and one that is the
\* string of the same digits get the same key.
C19_KeyFollowsRenderedId ==
    kout # <<>> =>
    /\ SameIdSameKey
    /\ (IdKind(kin.f1) # "composite" /\ IdKind(kin.f2) # "composite"
            /\ (IdKind(kin.f1) # IdKind(kin.f2)
                    \/ PyStr(IdValue(kin.f1)) # PyStr(IdValue(kin.f2))))
        => kout[1] # kout[2]
    /\ (IdKind(kin.f1) = IdKind(kin.f2) /\ IdKind(kin.f1) # "composite"
            /\ PyStr(IdValue(kin.f1)) = PyStr(IdValue(kin.f2)))
        => kout[1] = kout[2]

\* fill_key gave one key to two fills with the same tid that differ in hash
\* and in price.
C19_Witness ==
    /\ kout # <<>>
    /\ kin.f1.tid # None
    /\ kin.f1.tid = kin.f2.tid
    /\ kin.f1.hash # kin.f2.hash
    /\ kin.f1.px # kin.f2.px
    /\ kout[1] = kout[2]

\* C20: a frame for wallet w leaves the dedup list (its keys, their number
\* and their order) and the latch of every other wallet as they were; no
\* step changes the lists of two wallets; and a fill whose key is not in
\* w's set is notified for w whatever the other wallets recorded.
C20_WalletsIsolated ==
    /\ [](pc = "stream" =>
           \A frame \in GoodFrames :
               \E r \in {Step(frame)} :
                   \A v \in Wallets \ {UserOf(frame)} :
                       /\ r.seen[v] = seen_cache[v]
                       /\ (v \in r.sent) = (v \in baseline_sent))
    /\ [](pc = "stream" =>
           \A w \in Wallets :
               fill_key(w, FA) \notin Range(seen_cache[w]) =>
               Step(FillsFrame(w, <<FA>>, FALSE)).out = <<FillText(w, FA)>>)
    /\ [][\A w, v \in Wallets :
            (w # v /\ seen_cache'[w] # seen_cache[w]) => seen_cache'[v] = seen_cache[v]]_vars

\* The last step notified the fill of tid 1 for one wallet while the full
\* set of another wallet already held the key of that tid.
C20_Witness ==
    \E w, v \in Wallets :
        /\ w # v
        /\ out = <<FillText(w, FA)>>
        /\ fill_key(v, FA) \in Range(seen_cache[v])
        /\ Len(seen_cache[v]) = MaxSize

====
